---- MODULE Spec2Model ----
(***************************************************************************)
(* Day-timeline layout engine and drag/resize interpreter of the calendar  *)
(* component (DayTimeline.tsx), with the AppShell handlers and the         *)
(* localStorage repository it talks to.                                    *)
(*                                                                         *)
(* Time is in whole minutes, measured from local midnight of calendar day  *)
(* 0; day d covers [d*1440, (d+1)*1440).  Every instant the program itself *)
(* produces is a whole minute (Date.setMinutes truncates, the dialog       *)
(* formats to HH:mm).  Pixels are integers.                                *)
(***************************************************************************)
EXTENDS Integers, Sequences, FiniteSets, TLC

VARIABLES
    stored,        \* localStorage item 'events': [has, list]
    events,        \* AppShell state.events
    view,          \* AppShell state.view
    selectedDate,  \* AppShell state.selectedDateISO, as a day index
    mounted,       \* the AppShell mount effect has run
    tzWest,        \* the host time zone is west of UTC
    eventSlots,    \* DayTimeline eventSlots (the stacks)
    dragging,      \* DayTimeline dragging (the drag session) or Null
    ghostEvent,    \* DayTimeline ghostEvent or Null
    lastY,         \* clientY of the session's latest pointer-move, or NoY
    cancelAsked,   \* Escape was pressed or the window lost focus during the
                   \* active session
    lastCommit,    \* the event the latest pointer-up handed to onUpdate; Null
                   \* before the first and while a later session is active
    updateOutcome, \* how the AppShell updateEvent promise of lastCommit settled
    repoCalls,     \* repository operations invoked so far, in order
    announcement,  \* live-region message or Null
    lastCall,      \* the latest direct call of a repository function: its
                   \* name, arguments, the store before it and its result
    dialog,        \* EventDialog form state while it is open, else Null
    lastSave,      \* the event the dialog last passed to onSave, or Null
    issued         \* AppShell CRUD handlers invoked while the shell is driven
                   \* on its own, in order: handler, argument, how it settled

vars == <<stored, events, view, selectedDate, mounted, tzWest, eventSlots,
          dragging, ghostEvent, lastY, cancelAsked, lastCommit, updateOutcome,
          repoCalls, announcement, lastCall, dialog, lastSave, issued>>

appVars  == <<stored, events, view, selectedDate, mounted, tzWest>>
dragVars == <<dragging, ghostEvent, lastY, cancelAsked>>
histVars == <<lastCommit, updateOutcome, repoCalls, announcement>>
harnessVars == <<lastCall, dialog, lastSave, issued>>

----------------------------------------------------------------------------
(* Bounds *)

MaxEvents    == 1    \* persisted events in an initial store
MaxStackIn   == 3    \* events handed to the stacker
MaxCallStack == 3    \* call-stack frames available to a recursion
MaxStored    == 2    \* persisted events when the repository is driven directly
MaxIssued    == 2    \* CRUD handlers invoked while the shell is driven on its own
MaxLoads     == 2    \* loadEvents runs while the navigation is explored
MaxMonths    == 1    \* months navigated away from today
RectTop      == 64   \* container.getBoundingClientRect().top

(* Program constants *)

StartHour     == 5
EndHour       == 23
SlotMinutes   == 15
PixelsPerSlot == 40
MinutesPerDay == 24 * 60
MonthDays     == 30  \* addMonths / subMonths over a month of 30 days

Null == [null |-> TRUE]
NoY  == -(1000 * 1000)

Ids == <<"e1", "e2", "e3", "e4">>

\* 23:30 of the day before, 09:00, 10:00, 22:30
Instants == {-30, 540, 600, 1350}

\* 09:00, 09:30, 09:45, 10:00, 10:30, 11:00
StackInstants == {540, 570, 585, 600, 630, 660}

\* pointer positions relative to the container top: above the grid, its top,
\* 09:01.875, 09:30, 10:00, the bottom (23:00), below the grid
PointerYs == {-40, 0, 645, 720, 800, 2880, 3000}

ClientYs == {RectTop + y : y \in PointerYs}

Min(a, b) == IF a < b THEN a ELSE b
Max(a, b) == IF a > b THEN a ELSE b

Intervals(S) == {iv \in S \X S : iv[1] < iv[2]}

MkEvent(i, iv) == [id |-> Ids[i], start |-> iv[1], end |-> iv[2]]

\* every list of n events with start < end over the instants S, ids by position
EventLists(S, n) ==
    {[i \in 1..n |-> MkEvent(i, f[i])] : f \in [1..n -> Intervals(S)]}

EventListsUpTo(S, n) == UNION {EventLists(S, k) : k \in 0..n}

----------------------------------------------------------------------------
(* Interval Stacker: DayTimeline.tsx, the effect on [events] *)

Duration(e) == e.end - e.start

\* a comparator that breaks ties by duration ascending
CompareEvents_DurationAscending(a, b) ==
    IF a.start # b.start THEN a.start - b.start
    ELSE Duration(a) - Duration(b)

\* the sort comparator: start ascending, then duration descending
CompareEvents(a, b) ==
    IF a.start # b.start THEN a.start - b.start
    ELSE Duration(b) - Duration(a)

\* Array.prototype.sort is stable: e goes after every element not greater
RECURSIVE InsertSorted(_, _)
InsertSorted(e, s) ==
    IF s = <<>> THEN <<e>>
    ELSE IF CompareEvents(Head(s), e) <= 0
         THEN <<Head(s)>> \o InsertSorted(e, Tail(s))
         ELSE <<e>> \o s

RECURSIVE SortedEvents(_)
SortedEvents(evs) ==
    IF evs = <<>> THEN <<>>
    ELSE InsertSorted(evs[Len(evs)], SortedEvents(SubSeq(evs, 1, Len(evs) - 1)))

\* a sweep that also chains an event starting exactly at the last end
RECURSIVE Sweep_TouchingChains(_, _, _, _)
Sweep_TouchingChains(sorted, i, stacks, currentStack) ==
    IF i > Len(sorted) THEN
        IF Len(currentStack) > 0 THEN Append(stacks, currentStack) ELSE stacks
    ELSE
        LET event == sorted[i] IN
        IF Len(currentStack) > 0 THEN
            LET lastEvent == currentStack[Len(currentStack)] IN
            IF event.start <= lastEvent.end
            THEN Sweep_TouchingChains(sorted, i + 1, stacks, Append(currentStack, event))
            ELSE Sweep_TouchingChains(sorted, i + 1, Append(stacks, currentStack), <<event>>)
        ELSE Sweep_TouchingChains(sorted, i + 1, stacks, Append(currentStack, event))

\* a sweep that forgets to push the stack still open at the end
RECURSIVE Sweep_DropsLastStack(_, _, _, _)
Sweep_DropsLastStack(sorted, i, stacks, currentStack) ==
    IF i > Len(sorted) THEN stacks
    ELSE
        LET event == sorted[i] IN
        IF Len(currentStack) > 0 THEN
            LET lastEvent == currentStack[Len(currentStack)] IN
            IF event.start < lastEvent.end
            THEN Sweep_DropsLastStack(sorted, i + 1, stacks, Append(currentStack, event))
            ELSE Sweep_DropsLastStack(sorted, i + 1, Append(stacks, currentStack), <<event>>)
        ELSE Sweep_DropsLastStack(sorted, i + 1, stacks, Append(currentStack, event))

\* the forEach body, applied from event i on
RECURSIVE Sweep(_, _, _, _)
Sweep(sorted, i, stacks, currentStack) ==
    IF i > Len(sorted) THEN
        IF Len(currentStack) > 0 THEN Append(stacks, currentStack) ELSE stacks
    ELSE
        LET event == sorted[i] IN
        IF Len(currentStack) > 0 THEN
            LET lastEvent == currentStack[Len(currentStack)] IN
            IF event.start < lastEvent.end
            THEN Sweep(sorted, i + 1, stacks, Append(currentStack, event))
            ELSE Sweep(sorted, i + 1, Append(stacks, currentStack), <<event>>)
        ELSE Sweep(sorted, i + 1, stacks, Append(currentStack, event))

StackEvents(evs) == Sweep(SortedEvents(evs), 1, <<>>, <<>>)

----------------------------------------------------------------------------------------------------------------------------------------
(* Event repository: calendarRepo.local.ts.  A result is the tagged value   *)
(* the function returns together with the store it leaves behind.           *)

\* localStorage as the repository meets it: the item 'events' is absent, or
\* holds a list; the item may not parse to an array ("corrupt"), getItem may
\* throw ("unreadable"), setItem may throw ("full")
NoItem     == [has |-> FALSE, list |-> <<>>, fault |-> "none"]
\* JSON.parse(JSON.stringify(l)) is l: the fields are strings
Item(l)    == [has |-> TRUE, list |-> l, fault |-> "none"]
Corrupt    == [has |-> TRUE, list |-> <<>>, fault |-> "corrupt"]
Unreadable == [has |-> FALSE, list |-> <<>>, fault |-> "unreadable"]
Full(st)   == [st EXCEPT !.fault = "full"]

\* new Date(s).getTime() of a string that is not a date
NaN == -(2000 * 1000)

\* comparisons of time values: every comparison with NaN is false
NumLt(a, b) == a # NaN /\ b # NaN /\ a < b
NumGt(a, b) == a # NaN /\ b # NaN /\ a > b
NumGe(a, b) == a # NaN /\ b # NaN /\ a >= b

Ok(data, st) ==
    [ok |-> TRUE, data |-> data, error |-> "", stored |-> st, raised |-> FALSE]
Failure(msg, st) ==
    [ok |-> FALSE, data |-> Null, error |-> msg, stored |-> st, raised |-> FALSE]
\* an exception leaving the statement that threw it
Raise(st) ==
    [ok |-> FALSE, data |-> Null, error |-> "", stored |-> st, raised |-> TRUE]

\* a function body without its catch clause
Catch_Rethrow(r, msg, st) == r

\* try { ... } catch (error) { return { ok: false, error: msg } }
Catch(r, msg, st) == IF r.raised THEN Failure(msg, st) ELSE r

\* a filter that also takes the events touching the range at an endpoint
GetEventsInRangeBody_Closed(st, rangeStart, rangeEnd) ==
    IF st.fault = "unreadable" THEN Raise(st)
    ELSE IF ~st.has THEN Ok(<<>>, st)
    ELSE IF st.fault = "corrupt" THEN Raise(st)
    ELSE LET Overlaps(event) == /\ ~NumGt(event.start, rangeEnd)
                                /\ ~NumLt(event.end, rangeStart)
         IN Ok(SelectSeq(st.list, Overlaps), st)

GetEventsInRangeBody(st, rangeStart, rangeEnd) ==
    IF st.fault = "unreadable" THEN Raise(st)
    ELSE IF ~st.has THEN Ok(<<>>, st)
    ELSE IF st.fault = "corrupt" THEN Raise(st)
    ELSE LET Overlaps(event) == /\ NumLt(event.start, rangeEnd)
                                /\ NumGt(event.end, rangeStart)
         IN Ok(SelectSeq(st.list, Overlaps), st)

GetEventsInRange(st, rangeStart, rangeEnd) ==
    Catch(GetEventsInRangeBody(st, rangeStart, rangeEnd), "Failed to read events", st)

\* localStorage.setItem('events', JSON.stringify(list)), then return data
SetItemAndReturn(st, list, data) ==
    IF st.fault = "full" THEN Raise(st) ELSE Ok(data, Item(list))

\* crypto.randomUUID() yields a version-4 UUID; the model takes it never to
\* coincide with an id that is persisted
FreshIds(st) ==
    {Ids[i] : i \in 1..Len(Ids)} \ {st.list[i].id : i \in 1..Len(st.list)}

\* { ...event, id: uuid }: an id the caller supplied is overwritten
RepoCreateEventBody(st, event, uuid) ==
    IF st.fault = "unreadable" THEN Raise(st)
    ELSE IF st.has /\ st.fault = "corrupt" THEN Raise(st)
    ELSE IF event = Null THEN Raise(st)
    ELSE LET list == IF st.has THEN st.list ELSE <<>> IN
         IF NumGe(event.start, event.end)
         THEN Failure("End time must be after start time", st)
         ELSE LET newEvent == [id |-> uuid, start |-> event.start, end |-> event.end]
              IN SetItemAndReturn(st, Append(list, newEvent), newEvent)

RepoCreateEvent(st, event, uuid) ==
    Catch(RepoCreateEventBody(st, event, uuid), "Failed to create event", st)

FindIndex(list, id) ==
    IF \E i \in 1..Len(list) : list[i].id = id
    THEN CHOOSE i \in 1..Len(list) :
            /\ list[i].id = id
            /\ \A j \in 1..(i - 1) : list[j].id # id
    ELSE -1

RepoUpdateEventBody(st, event) ==
    IF st.fault = "unreadable" THEN Raise(st)
    ELSE IF ~st.has THEN Failure("No events found", st)
    ELSE IF st.fault = "corrupt" THEN Raise(st)
    ELSE IF event = Null THEN Raise(st)
    ELSE IF NumGe(event.start, event.end)
    THEN Failure("End time must be after start time", st)
    ELSE LET index == FindIndex(st.list, event.id) IN
         IF index = -1 THEN Failure("Event not found", st)
         ELSE SetItemAndReturn(st, [st.list EXCEPT ![index] = event], event)

RepoUpdateEvent(st, event) ==
    Catch(RepoUpdateEventBody(st, event), "Failed to update event", st)

\* a delete that cuts the list at the matching event
RepoDeleteEventBody_Truncates(st, id) ==
    IF st.fault = "unreadable" THEN Raise(st)
    ELSE IF ~st.has THEN Ok(Null, st)
    ELSE IF st.fault = "corrupt" THEN Raise(st)
    ELSE LET Before(i) == \A j \in 1..i : st.list[j].id # id
         IN SetItemAndReturn(st,
                [i \in {k \in 1..Len(st.list) : Before(k)} |-> st.list[i]], Null)

\* a delete whose filter keeps the event it should drop
RepoDeleteEventBody_KeepsMatch(st, id) ==
    IF st.fault = "unreadable" THEN Raise(st)
    ELSE IF ~st.has THEN Ok(Null, st)
    ELSE IF st.fault = "corrupt" THEN Raise(st)
    ELSE LET Keep(event) == event.id = id
         IN SetItemAndReturn(st, SelectSeq(st.list, Keep), Null)

RepoDeleteEventBody(st, id) ==
    IF st.fault = "unreadable" THEN Raise(st)
    ELSE IF ~st.has THEN Ok(Null, st)
    ELSE IF st.fault = "corrupt" THEN Raise(st)
    ELSE LET Keep(event) == event.id # id
         IN SetItemAndReturn(st, SelectSeq(st.list, Keep), Null)

RepoDeleteEvent(st, id) ==
    Catch(RepoDeleteEventBody(st, id), "Failed to delete event", st)

----------------
(* Time helpers: timeHelpers.ts *)

GetDayStart(day) == day * MinutesPerDay
GetDayEnd(day)   == (day + 1) * MinutesPerDay

\* toLocal(iso).getHours() * 60 + toLocal(iso).getMinutes()
ClockMinutes(t) == t % MinutesPerDay

----------------------------------------------------------------------------
(* AppShell.tsx *)

\* what a handler leaves behind: how its promise settled, and the state
Settled(how, st, evs, calls) ==
    [settled |-> how, stored |-> st, events |-> evs, repoCalls |-> calls]

\* a handler that patches the view's list before it awaits
AppShellUpdateEvent_Optimistic(event, depth, st, evs, calls) ==
    Settled("rejected", st,
            [i \in 1..Len(evs) |-> IF evs[i].id = event.id THEN event ELSE evs[i]],
            calls)

\* const updateEvent = async (event) => { const result = await updateEvent(event); ... }
\* The name in the body is the const being defined (it shadows the import of
\* line 6), so the handler calls itself until the call stack is exhausted; the
\* RangeError rejects every promise of the chain and line 89 is never reached.
RECURSIVE AppShellUpdateEvent(_, _, _, _, _)
AppShellUpdateEvent(event, depth, st, evs, calls) ==
    IF depth >= MaxCallStack THEN Settled("rejected", st, evs, calls)
    ELSE LET result == AppShellUpdateEvent(event, depth + 1, st, evs, calls)
         IN Settled("rejected", result.stored, result.events, result.repoCalls)

\* const createEvent = async (event) => { const result = await createEvent(event); ... }
\* The same shadowing as in updateEvent: line 78 calls the const of line 77.
RECURSIVE AppShellCreateEvent(_, _, _, _, _)
AppShellCreateEvent(event, depth, st, evs, calls) ==
    IF depth >= MaxCallStack THEN Settled("rejected", st, evs, calls)
    ELSE LET result == AppShellCreateEvent(event, depth + 1, st, evs, calls)
         IN Settled("rejected", result.stored, result.events, result.repoCalls)

\* const deleteEvent = async (id) => { const result = await deleteEvent(id); ... }
\* Line 98 calls the const of line 97.
RECURSIVE AppShellDeleteEvent(_, _, _, _, _)
AppShellDeleteEvent(id, depth, st, evs, calls) ==
    IF depth >= MaxCallStack THEN Settled("rejected", st, evs, calls)
    ELSE LET result == AppShellDeleteEvent(id, depth + 1, st, evs, calls)
         IN Settled("rejected", result.stored, result.events, result.repoCalls)

\* loadEvents: the repository function has no await inside, and the
\* continuation is a microtask, so no other handler runs in between
LoadEvents(st, evs, day, calls) ==
    LET start  == GetDayStart(day)
        end    == GetDayEnd(day)
        result == GetEventsInRange(st, start, end)
        log    == Append(calls, [op |-> "getEventsInRange", start |-> start, end |-> end])
    IN Settled("fulfilled", result.stored,
               IF result.ok THEN result.data ELSE evs, log)

----------------------------------------------------------------------------
(* DayTimeline.tsx: geometry *)

WindowMinutes == (EndHour - StartHour) * 60

\* a mapping without the clamp
MinutesFromTop_NoClamp(y) == (y * SlotMinutes) \div PixelsPerSlot

\* a mapping that snaps to the full hour
MinutesFromTop_SnapsToHour(y) ==
    Max(0, Min((((y * SlotMinutes) \div PixelsPerSlot) \div 60) * 60, WindowMinutes))

\* minutesFromTop, then the truncation Date.setMinutes applies to it; the
\* clamp's bounds are integers, so truncating first gives the same minute
MinutesFromTop(y) ==
    Max(0, Min((y * SlotMinutes) \div PixelsPerSlot, WindowMinutes))

\* new Date(dateISO) is UTC midnight of the selected day, which west of UTC
\* is an instant of the previous local day; setHours(startHour, 0, 0, 0) and
\* setMinutes(minutesFromTop) then act on that local day
NewDate(day, west, y) ==
    (IF west THEN day - 1 ELSE day) * MinutesPerDay + StartHour * 60 + MinutesFromTop(y)

\* an event card covers [top, top + max(40, height)] of the column, with
\* top = startMinutes / slotMinutes * 40; sides multiplied by slotMinutes
PointerOnCard(event, y) ==
    LET startMinutes == ClockMinutes(event.start) - StartHour * 60
        endMinutes   == ClockMinutes(event.end) - StartHour * 60
        top15        == startMinutes * PixelsPerSlot
        height15     == Max(PixelsPerSlot * SlotMinutes,
                            (endMinutes - startMinutes) * PixelsPerSlot)
    IN top15 <= y * SlotMinutes /\ y * SlotMinutes <= top15 + height15

\* style.top and style.height of a card, in pixels times slotMinutes:
\* top = (startMinutes / slotMinutes) * 40, height = max(40, ...)
CardTop15(event) ==
    (ClockMinutes(event.start) - StartHour * 60) * PixelsPerSlot

CardHeight15(event) ==
    Max(PixelsPerSlot * SlotMinutes,
        (ClockMinutes(event.end) - ClockMinutes(event.start)) * PixelsPerSlot)

\* the height of the grid in pixels
WindowPixels == (WindowMinutes \div SlotMinutes) * PixelsPerSlot

RECURSIVE Flatten(_)
Flatten(stacks) ==
    IF stacks = <<>> THEN <<>> ELSE Head(stacks) \o Flatten(Tail(stacks))

\* the cards on screen
Rendered == {Flatten(eventSlots)[i] : i \in 1..Len(Flatten(eventSlots))}

\* eventSlots after a render with the given view and events
SlotsFor(v, evs) == IF v = "day" THEN StackEvents(evs) ELSE <<>>

----------------------------------------------------------------------------
(* Initial state: AppShell constructed, nothing loaded yet *)

Init ==
    /\ stored \in {NoItem} \cup {Item(l) : l \in EventListsUpTo(Instants, MaxEvents)}
    /\ events = <<>>
    /\ view = "month"
    /\ selectedDate = 0
    /\ mounted = FALSE
    /\ tzWest \in BOOLEAN
    /\ eventSlots = <<>>
    /\ dragging = Null
    /\ ghostEvent = Null
    /\ lastY = NoY
    /\ cancelAsked = FALSE
    /\ lastCommit = Null
    /\ updateOutcome = "none"
    /\ repoCalls = <<>>
    /\ announcement = Null
    /\ lastCall = Null
    /\ dialog = Null
    /\ lastSave = Null
    /\ issued = <<>>

----------------------------------------------------------------------------
(* AppShell actions *)

\* useEffect(() => { loadEvents(); }, [])
Mount ==
    /\ ~mounted
    /\ LET r == LoadEvents(stored, events, selectedDate, repoCalls) IN
        /\ stored' = r.stored
        /\ events' = r.events
        /\ repoCalls' = r.repoCalls
        /\ eventSlots' = SlotsFor(view, r.events)
    /\ mounted' = TRUE
    /\ UNCHANGED <<view, selectedDate, tzWest, dragVars,
                   lastCommit, updateOutcome, announcement>>
    /\ UNCHANGED harnessVars

\* the view-toggle button; leaving the day view unmounts DayTimeline
ToggleView ==
    /\ mounted
    /\ view' = IF view = "month" THEN "day" ELSE "month"
    /\ eventSlots' = SlotsFor(view', events)
    /\ dragging' = IF view' = "day" THEN dragging ELSE Null
    /\ ghostEvent' = IF view' = "day" THEN ghostEvent ELSE Null
    /\ lastY' = IF view' = "day" THEN lastY ELSE NoY
    /\ cancelAsked' = IF view' = "day" THEN cancelAsked ELSE FALSE
    /\ UNCHANGED <<stored, events, selectedDate, mounted, tzWest, histVars>>
    /\ UNCHANGED harnessVars

----------------------------------------------------------------------------
(* DayTimeline actions *)

\* a pointer-down that keeps the ghost of the session it replaces
StartSession_KeepsGhost(event, type, clientY) ==
    /\ dragging' = [id |-> event.id, type |-> type,
                    originalStart |-> event.start, originalEnd |-> event.end,
                    initialY |-> clientY]
    /\ ghostEvent' = IF ghostEvent = Null THEN event ELSE ghostEvent
    /\ lastY' = NoY
    /\ cancelAsked' = FALSE
    /\ lastCommit' = Null
    /\ updateOutcome' = "none"

StartSession(event, type, clientY) ==
    /\ dragging' = [id |-> event.id, type |-> type,
                    originalStart |-> event.start, originalEnd |-> event.end,
                    initialY |-> clientY]
    /\ ghostEvent' = [event EXCEPT !.start = event.start, !.end = event.end]
    /\ lastY' = NoY
    /\ cancelAsked' = FALSE
    /\ lastCommit' = Null
    /\ updateOutcome' = "none"

HandleMouseDown(event, button, clientY) ==
    /\ view = "day" /\ mounted
    /\ event \in Rendered
    /\ PointerOnCard(event, clientY - RectTop)
    /\ IF button # 0 THEN UNCHANGED <<dragVars, lastCommit, updateOutcome>>
       ELSE StartSession(event, "move", clientY)
    /\ UNCHANGED <<appVars, eventSlots, repoCalls, announcement>>
    /\ UNCHANGED harnessVars

HandleResizeTop(event, clientY) ==
    /\ view = "day" /\ mounted
    /\ event \in Rendered
    /\ PointerOnCard(event, clientY - RectTop)
    /\ StartSession(event, "resize-top", clientY)
    /\ UNCHANGED <<appVars, eventSlots, repoCalls, announcement>>
    /\ UNCHANGED harnessVars

HandleResizeBottom(event, clientY) ==
    /\ view = "day" /\ mounted
    /\ event \in Rendered
    /\ PointerOnCard(event, clientY - RectTop)
    /\ StartSession(event, "resize-bottom", clientY)
    /\ UNCHANGED <<appVars, eventSlots, repoCalls, announcement>>
    /\ UNCHANGED harnessVars

\* a resize that takes every candidate
MovedGhost_Unguarded(drag, ghost, day, west, clientY) ==
    LET y       == clientY - RectTop
        newDate == NewDate(day, west, y)
    IN  IF drag.type = "move" THEN
            LET duration == drag.originalEnd - drag.originalStart
            IN [ghost EXCEPT !.start = newDate, !.end = newDate + duration]
        ELSE IF drag.type = "resize-top" THEN [ghost EXCEPT !.start = newDate]
        ELSE IF drag.type = "resize-bottom" THEN [ghost EXCEPT !.end = newDate]
        ELSE ghost

\* a move that clamps the end to the bottom of the window
MovedGhost_ClampEnd(drag, ghost, day, west, clientY) ==
    LET y       == clientY - RectTop
        newDate == NewDate(day, west, y)
        bottom  == NewDate(day, west, WindowMinutes * PixelsPerSlot)
    IN  IF drag.type = "move" THEN
            LET duration == drag.originalEnd - drag.originalStart
            IN [ghost EXCEPT !.start = newDate,
                             !.end = Min(newDate + duration, bottom)]
        ELSE IF drag.type = "resize-top" THEN
            IF newDate < ghost.end THEN [ghost EXCEPT !.start = newDate] ELSE ghost
        ELSE IF drag.type = "resize-bottom" THEN
            IF newDate > ghost.start THEN [ghost EXCEPT !.end = newDate] ELSE ghost
        ELSE ghost

\* a resize that carries the opposite edge along, keeping the duration
MovedGhost_ResizeShifts(drag, ghost, day, west, clientY) ==
    LET y        == clientY - RectTop
        newDate  == NewDate(day, west, y)
        duration == ghost.end - ghost.start
    IN  IF drag.type = "move" THEN
            [ghost EXCEPT !.start = newDate,
                          !.end = newDate + (drag.originalEnd - drag.originalStart)]
        ELSE IF drag.type = "resize-top" THEN
            IF newDate < ghost.end
            THEN [ghost EXCEPT !.start = newDate, !.end = newDate + duration]
            ELSE ghost
        ELSE IF drag.type = "resize-bottom" THEN
            IF newDate > ghost.start
            THEN [ghost EXCEPT !.start = newDate - duration, !.end = newDate]
            ELSE ghost
        ELSE ghost

\* the ghost a pointer-move at clientY produces
MovedGhost(drag, ghost, day, west, clientY) ==
    LET y       == clientY - RectTop
        newDate == NewDate(day, west, y)
    IN  IF drag.type = "move" THEN
            LET duration == drag.originalEnd - drag.originalStart
            IN [ghost EXCEPT !.start = newDate, !.end = newDate + duration]
        ELSE IF drag.type = "resize-top" THEN
            IF newDate < ghost.end THEN [ghost EXCEPT !.start = newDate] ELSE ghost
        ELSE IF drag.type = "resize-bottom" THEN
            IF newDate > ghost.start THEN [ghost EXCEPT !.end = newDate] ELSE ghost
        ELSE ghost

\* a pointer-move that hands every ghost to onUpdate
HandleMouseMove_WritesThrough(clientY) ==
    /\ view = "day"
    /\ dragging # Null /\ ghostEvent # Null
    /\ ghostEvent' = MovedGhost(dragging, ghostEvent, selectedDate, tzWest, clientY)
    /\ lastY' = clientY
    /\ lastCommit' = ghostEvent'
    /\ UNCHANGED <<appVars, eventSlots, dragging, cancelAsked, updateOutcome,
                   repoCalls, announcement>>
    /\ UNCHANGED harnessVars

HandleMouseMove(clientY) ==
    /\ view = "day"
    /\ dragging # Null /\ ghostEvent # Null
    /\ ghostEvent' = MovedGhost(dragging, ghostEvent, selectedDate, tzWest, clientY)
    /\ lastY' = clientY
    /\ UNCHANGED <<appVars, eventSlots, dragging, cancelAsked, histVars>>
    /\ UNCHANGED harnessVars

\* onUpdate is AppShell's handleUpdateEvent
HandleMouseUp ==
    /\ view = "day"
    /\ dragging # Null /\ ghostEvent # Null
    /\ LET updatedEvent == ghostEvent
           r == AppShellUpdateEvent(updatedEvent, 0, stored, events, repoCalls)
       IN /\ lastCommit' = updatedEvent
          /\ updateOutcome' = r.settled
          /\ stored' = r.stored
          /\ events' = r.events
          /\ repoCalls' = r.repoCalls
          /\ eventSlots' = SlotsFor(view, r.events)
    /\ dragging' = Null
    /\ ghostEvent' = Null
    /\ lastY' = NoY
    /\ cancelAsked' = FALSE
    /\ announcement' = [movedTo |-> ClockMinutes(ghostEvent.start)]
    /\ UNCHANGED <<view, selectedDate, mounted, tzWest>>
    /\ UNCHANGED harnessVars

\* Escape pressed, or the window blurred: the effect of lines 232-242
\* registers listeners for mousemove and mouseup only, and the component has
\* no keydown or blur handler, so nothing of the session changes
CancelGesture(kind) ==
    /\ view = "day"
    /\ dragging # Null /\ ghostEvent # Null
    /\ kind \in {"Escape", "blur"}
    /\ cancelAsked' = TRUE
    /\ UNCHANGED <<appVars, eventSlots, dragging, ghostEvent, lastY, histVars>>
    /\ UNCHANGED harnessVars

Next ==
    \/ Mount
    \/ ToggleView
    \/ \E event \in Rendered, button \in {0, 2}, clientY \in ClientYs :
          HandleMouseDown(event, button, clientY)
    \/ \E event \in Rendered, clientY \in ClientYs : HandleResizeTop(event, clientY)
    \/ \E event \in Rendered, clientY \in ClientYs : HandleResizeBottom(event, clientY)
    \/ \E clientY \in ClientYs : HandleMouseMove(clientY)
    \/ HandleMouseUp
    \/ \E kind \in {"Escape", "blur"} : CancelGesture(kind)

Spec == Init /\ [][Next]_vars

----------------------------------------------------------------------------
(* The stacker on its own: DayTimeline rendered with any events prop *)

InitStacker ==
    /\ stored = NoItem
    /\ events = <<>>
    /\ view = "day"
    /\ selectedDate = 0
    /\ mounted = TRUE
    /\ tzWest = FALSE
    /\ eventSlots = <<>>
    /\ dragging = Null
    /\ ghostEvent = Null
    /\ lastY = NoY
    /\ cancelAsked = FALSE
    /\ lastCommit = Null
    /\ updateOutcome = "none"
    /\ repoCalls = <<>>
    /\ announcement = Null
    /\ lastCall = Null
    /\ dialog = Null
    /\ lastSave = Null
    /\ issued = <<>>

\* the first render with a loaded events prop (AppShell starts with none),
\* and the effect on [events] after it
StackEffect(evs) ==
    /\ events = <<>>
    /\ events' = evs
    /\ eventSlots' = StackEvents(evs)
    /\ UNCHANGED <<stored, view, selectedDate, mounted, tzWest, dragVars, histVars>>
    /\ UNCHANGED harnessVars

NextStacker ==
    /\ events = <<>>
    /\ \E n \in 0..MaxStackIn :
          \E f \in [1..n -> Intervals(StackInstants)] :
              StackEffect([i \in 1..n |-> MkEvent(i, f[i])])

SpecStacker == InitStacker /\ [][NextStacker]_vars

----------------------------------------------------------------------------
(* The repository on its own: its four functions called in any order, on   *)
(* any storage state                                                        *)

\* intervals a caller passes: two valid ones, end before start, end equal to
\* start, and a start that is not a date
EventInputs == {<<540, 600>>, <<600, 660>>, <<600, 540>>, <<600, 600>>, <<NaN, 600>>}

ValidInputs == {iv \in EventInputs : NumLt(iv[1], iv[2])}

QueryRanges == {<<0, 540>>, <<540, 600>>, <<570, 630>>, <<600, 1440>>, <<0, 1440>>}

uiVars == <<events, view, selectedDate, mounted, tzWest, eventSlots, dragVars,
            lastCommit, updateOutcome, announcement, dialog, lastSave, issued>>

InitRepo ==
    /\ stored \in {Corrupt, Unreadable}
            \cup {NoItem, Full(NoItem), Item(<<>>), Full(Item(<<>>))}
            \cup {Item(<<MkEvent(1, iv)>>) : iv \in ValidInputs}
            \cup {Full(Item(<<MkEvent(1, iv)>>)) : iv \in ValidInputs}
    /\ events = <<>>
    /\ view = "month"
    /\ selectedDate = 0
    /\ mounted = FALSE
    /\ tzWest = FALSE
    /\ eventSlots = <<>>
    /\ dragging = Null
    /\ ghostEvent = Null
    /\ lastY = NoY
    /\ cancelAsked = FALSE
    /\ lastCommit = Null
    /\ updateOutcome = "none"
    /\ repoCalls = <<>>
    /\ announcement = Null
    /\ lastCall = Null
    /\ dialog = Null
    /\ lastSave = Null
    /\ issued = <<>>

\* what is kept of a call that returned r
CallRecord(op, arg, r) ==
    [op |-> op, arg |-> arg, before |-> stored,
     result |-> [ok |-> r.ok, data |-> r.data, error |-> r.error,
                 raised |-> r.raised]]

CallCreateEvent(event, uuid) ==
    /\ Len(stored.list) < MaxStored
    /\ uuid \in FreshIds(stored)
    /\ LET r == RepoCreateEvent(stored, event, uuid) IN
        /\ stored' = r.stored
        /\ lastCall' = CallRecord("createEvent", event, r)
    /\ UNCHANGED <<uiVars, repoCalls>>

CallUpdateEvent(event) ==
    /\ LET r == RepoUpdateEvent(stored, event) IN
        /\ stored' = r.stored
        /\ lastCall' = CallRecord("updateEvent", event, r)
    /\ UNCHANGED <<uiVars, repoCalls>>

CallDeleteEvent(id) ==
    /\ LET r == RepoDeleteEvent(stored, id) IN
        /\ stored' = r.stored
        /\ lastCall' = CallRecord("deleteEvent", id, r)
    /\ UNCHANGED <<uiVars, repoCalls>>

CallGetEventsInRange(rangeStart, rangeEnd) ==
    /\ LET r == GetEventsInRange(stored, rangeStart, rangeEnd) IN
        /\ stored' = r.stored
        /\ lastCall' = CallRecord("getEventsInRange", <<rangeStart, rangeEnd>>, r)
    /\ UNCHANGED <<uiVars, repoCalls>>

IdSet == {Ids[i] : i \in 1..Len(Ids)}

NextRepo ==
    \/ \E iv \in EventInputs, uuid \in IdSet :
          CallCreateEvent([start |-> iv[1], end |-> iv[2]], uuid)
    \/ \E uuid \in IdSet : CallCreateEvent(Null, uuid)
    \/ \E iv \in EventInputs, id \in IdSet :
          CallUpdateEvent([id |-> id, start |-> iv[1], end |-> iv[2]])
    \/ CallUpdateEvent(Null)
    \/ \E id \in IdSet : CallDeleteEvent(id)
    \/ \E range \in QueryRanges : CallGetEventsInRange(range[1], range[2])

SpecRepo == InitRepo /\ [][NextRepo]_vars

----------------------------------------------------------------------------
(* The repository round trip: on an empty store, create, query, delete the  *)
(* created id, query again                                                  *)

\* the user interface has not been started
UiAtRest ==
    /\ events = <<>>
    /\ view = "month"
    /\ selectedDate = 0
    /\ mounted = FALSE
    /\ tzWest = FALSE
    /\ eventSlots = <<>>
    /\ dragging = Null
    /\ ghostEvent = Null
    /\ lastY = NoY
    /\ cancelAsked = FALSE
    /\ lastCommit = Null
    /\ updateOutcome = "none"
    /\ announcement = Null
    /\ dialog = Null
    /\ lastSave = Null
    /\ issued = <<>>

InitRoundTrip ==
    /\ stored \in {NoItem, Item(<<>>)}
    /\ repoCalls = <<>>
    /\ lastCall = Null
    /\ UiAtRest

RoundTripCreate(event, uuid) ==
    /\ repoCalls = <<>>
    /\ uuid \in FreshIds(stored)
    /\ LET r == RepoCreateEvent(stored, event, uuid) IN
        /\ stored' = r.stored
        /\ repoCalls' = Append(repoCalls, CallRecord("createEvent", event, r))
    /\ UNCHANGED <<uiVars, lastCall>>

\* a query whose range covers the created interval; the second query repeats
\* the first
RoundTripQuery(rangeStart, rangeEnd) ==
    /\ Len(repoCalls) \in {1, 3}
    /\ rangeStart <= repoCalls[1].arg.start
    /\ repoCalls[1].arg.end <= rangeEnd
    /\ Len(repoCalls) = 3 => repoCalls[2].arg = <<rangeStart, rangeEnd>>
    /\ LET r == GetEventsInRange(stored, rangeStart, rangeEnd) IN
        /\ stored' = r.stored
        /\ repoCalls' = Append(repoCalls,
               CallRecord("getEventsInRange", <<rangeStart, rangeEnd>>, r))
    /\ UNCHANGED <<uiVars, lastCall>>

RoundTripDelete ==
    /\ Len(repoCalls) = 2
    /\ repoCalls[1].result.ok
    /\ LET id == repoCalls[1].result.data.id
           r  == RepoDeleteEvent(stored, id) IN
        /\ stored' = r.stored
        /\ repoCalls' = Append(repoCalls, CallRecord("deleteEvent", id, r))
    /\ UNCHANGED <<uiVars, lastCall>>

NextRoundTrip ==
    \/ \E iv \in Intervals(StackInstants), uuid \in IdSet :
          RoundTripCreate([start |-> iv[1], end |-> iv[2]], uuid)
    \/ \E rangeStart \in {0} \cup StackInstants,
           rangeEnd \in StackInstants \cup {MinutesPerDay} :
          RoundTripQuery(rangeStart, rangeEnd)
    \/ RoundTripDelete

SpecRoundTrip == InitRoundTrip /\ [][NextRoundTrip]_vars

----------------------------------------------------------------------------
(* The event dialog: EventDialog.tsx rendered open by AppShell, with        *)
(* editingEvent one of the loaded events (an edit) or null (a create)       *)

Titles == {" ", "Standup"}

\* the form after the effect on [open, initial]; the fields of a create stay
\* empty.  format(parseISO(start), "yyyy-MM-dd'T'HH:mm") drops seconds, and
\* the instants here are whole minutes
FormFor(initial) ==
    IF initial = Null
    THEN [initial |-> Null, title |-> "", start |-> NaN, end |-> NaN]
    ELSE [initial |-> initial, title |-> "Standup",
          start |-> initial.start, end |-> initial.end]

InitDialog ==
    /\ stored \in {NoItem} \cup {Item(l) : l \in EventListsUpTo(Instants, MaxEvents)}
    /\ events = LoadEvents(stored, <<>>, 0, <<>>).events
    /\ repoCalls = LoadEvents(stored, <<>>, 0, <<>>).repoCalls
    /\ view = "month"
    /\ selectedDate = 0
    /\ mounted = TRUE
    /\ tzWest = FALSE
    /\ eventSlots = <<>>
    /\ dragging = Null
    /\ ghostEvent = Null
    /\ lastY = NoY
    /\ cancelAsked = FALSE
    /\ lastCommit = Null
    /\ updateOutcome = "none"
    /\ announcement = Null
    /\ lastCall = Null
    /\ dialog \in {FormFor(Null)} \cup {FormFor(events[i]) : i \in 1..Len(events)}
    /\ lastSave = Null
    /\ issued = <<>>

dialogFrame == <<stored, events, view, selectedDate, mounted, tzWest, eventSlots,
                 dragVars, histVars, lastCall, issued>>

SetTitle(title) ==
    /\ dialog # Null
    /\ dialog' = [dialog EXCEPT !.title = title]
    /\ UNCHANGED <<dialogFrame, lastSave>>

SetStart(start) ==
    /\ dialog # Null
    /\ dialog' = [dialog EXCEPT !.start = start]
    /\ UNCHANGED <<dialogFrame, lastSave>>

SetEnd(end) ==
    /\ dialog # Null
    /\ dialog' = [dialog EXCEPT !.end = end]
    /\ UNCHANGED <<dialogFrame, lastSave>>

\* a blank title: trim() leaves nothing
IsBlank(title) == title \in {"", " "}

\* the form's submit event (the three inputs are `required`, so none is
\* empty), then AppShell's onSave
HandleSubmit(uuid) ==
    /\ dialog # Null
    /\ dialog.title # "" /\ dialog.start # NaN /\ dialog.end # NaN
    /\ uuid \in FreshIds(stored)
    /\ IF IsBlank(dialog.title)
       THEN UNCHANGED <<stored, events, repoCalls, dialog, lastSave>>
       ELSE LET newEvent == [id |-> uuid, start |-> dialog.start, end |-> dialog.end]
                r == IF dialog.initial # Null
                     THEN AppShellUpdateEvent(newEvent, 0, stored, events, repoCalls)
                     ELSE AppShellCreateEvent(newEvent, 0, stored, events, repoCalls)
            IN /\ lastSave' = [event |-> newEvent, editing |-> dialog.initial,
                               settled |-> r.settled]
               /\ stored' = r.stored
               /\ events' = r.events
               /\ repoCalls' = r.repoCalls
               /\ dialog' = Null
    /\ UNCHANGED <<view, selectedDate, mounted, tzWest, eventSlots, dragVars,
                   lastCommit, updateOutcome, announcement, lastCall, issued>>

\* Cancel, a click on the overlay, or Delete (handleDelete only calls onClose)
CloseDialog ==
    /\ dialog # Null
    /\ dialog' = Null
    /\ UNCHANGED <<dialogFrame, lastSave>>

NextDialog ==
    \/ \E title \in Titles : SetTitle(title)
    \/ \E start \in Instants : SetStart(start)
    \/ \E end \in Instants : SetEnd(end)
    \/ \E uuid \in IdSet : HandleSubmit(uuid)
    \/ CloseDialog

SpecDialog == InitDialog /\ [][NextDialog]_vars

----------------------------------------------------------------------------
(* Navigation: AppShell with its date selection, month navigation and view  *)
(* toggle, over stores that hold events of today and of tomorrow            *)

\* 09:00-10:00 today, 09:00-10:00 tomorrow
EventToday    == [id |-> "e1", start |-> 540, end |-> 600]
EventTomorrow == [id |-> "e2", start |-> MinutesPerDay + 540, end |-> MinutesPerDay + 600]

InitNav ==
    /\ stored \in {NoItem, Corrupt, Item(<<EventToday>>), Item(<<EventTomorrow>>),
                   Item(<<EventToday, EventTomorrow>>)}
    /\ repoCalls = <<>>
    /\ lastCall = Null
    /\ UiAtRest

\* setState puts the new date into the next render; loadEvents is the one of
\* this render, whose state.selectedDateISO is still the date shown before
SelectDate(dateISO) ==
    /\ mounted /\ view = "month"
    /\ Len(repoCalls) < MaxLoads
    /\ view' = "day"
    /\ selectedDate' = dateISO
    /\ LET r == LoadEvents(stored, events, selectedDate, repoCalls) IN
        /\ stored' = r.stored
        /\ events' = r.events
        /\ repoCalls' = r.repoCalls
        /\ eventSlots' = SlotsFor("day", r.events)
    /\ UNCHANGED <<mounted, tzWest, dragVars, lastCommit, updateOutcome,
                   announcement, harnessVars>>

\* the header buttons and MonthGrid's onNavigate; no load follows.  'today'
\* is day 0.  The time zone is UTC here, where the date string that
\* toISOString() gives for a local midnight names the same day
NavigateMonth(dir) ==
    /\ mounted
    /\ selectedDate' = IF dir = "prev" THEN selectedDate - MonthDays
                       ELSE IF dir = "next" THEN selectedDate + MonthDays
                       ELSE 0
    /\ -(MaxMonths * MonthDays) <= selectedDate'
    /\ selectedDate' <= MaxMonths * MonthDays + 1
    /\ UNCHANGED <<stored, events, view, mounted, tzWest, eventSlots, dragVars,
                   histVars, harnessVars>>

NextNav ==
    \/ Mount
    \/ ToggleView
    \/ \E dateISO \in {selectedDate, selectedDate + 1} : SelectDate(dateISO)
    \/ \E dir \in {"prev", "next", "today"} : NavigateMonth(dir)

SpecNav == InitNav /\ [][NextNav]_vars

----------------------------------------------------------------------------
(* The shell's CRUD handlers, invoked through the props of DayTimeline      *)

\* intervals a drag of the 09:00-10:00 event ends with
EditedIntervals == {<<570, 630>>, <<600, 660>>}

\* clicks at 09:00 and at 10:00 of the grid
ClickYs == {RectTop + 640, RectTop + 800}

\* what a handler invocation leaves behind
Invoked(op, arg, r) ==
    /\ issued' = Append(issued, [op |-> op, arg |-> arg, settled |-> r.settled])
    /\ stored' = r.stored
    /\ events' = r.events
    /\ repoCalls' = r.repoCalls
    /\ eventSlots' = SlotsFor(view, r.events)

shellFrame == <<view, selectedDate, mounted, tzWest, dragVars, lastCommit,
                updateOutcome, announcement, lastCall, dialog, lastSave>>

\* a click on the empty timeline: onCreate is handleCreateEvent
HandleEmptySpaceClick(clientY) ==
    /\ view = "day" /\ mounted
    /\ Len(issued) < MaxIssued
    /\ LET newDate == NewDate(selectedDate, tzWest, clientY - RectTop)
           draft   == [start |-> newDate, end |-> newDate + 30]
       IN Invoked("createEvent", draft,
                  AppShellCreateEvent(draft, 0, stored, events, repoCalls))
    /\ UNCHANGED shellFrame

\* onUpdate, as the pointer-up of a drag calls it with the final ghost
HandleUpdateEvent(event) ==
    /\ view = "day" /\ mounted
    /\ Len(issued) < MaxIssued
    /\ \E e \in Rendered : e.id = event.id
    /\ Invoked("updateEvent", event,
               AppShellUpdateEvent(event, 0, stored, events, repoCalls))
    /\ UNCHANGED shellFrame

\* onDelete
HandleDeleteEvent(id) ==
    /\ view = "day" /\ mounted
    /\ Len(issued) < MaxIssued
    /\ \E e \in Rendered : e.id = id
    /\ Invoked("deleteEvent", id,
               AppShellDeleteEvent(id, 0, stored, events, repoCalls))
    /\ UNCHANGED shellFrame

NextShell ==
    \/ Mount
    \/ ToggleView
    \/ \E clientY \in ClickYs : HandleEmptySpaceClick(clientY)
    \/ \E id \in IdSet, iv \in EditedIntervals :
          HandleUpdateEvent([id |-> id, start |-> iv[1], end |-> iv[2]])
    \/ \E id \in IdSet : HandleDeleteEvent(id)

SpecShell == InitNav /\ [][NextShell]_vars

----------------------------------------------------------------------------
(* Pointer geometry: a move drag of the 09:00-10:00 event with the pointer  *)
(* at every pixel around the top and the bottom of the grid                 *)

GeometryYs == (-40 .. 120) \cup {640, 720} \cup (WindowPixels - 80 .. WindowPixels + 40)

InitGeometry ==
    /\ stored = Item(<<EventToday>>)
    /\ repoCalls = <<>>
    /\ lastCall = Null
    /\ events = <<>>
    /\ view = "month"
    /\ selectedDate = 0
    /\ mounted = FALSE
    /\ tzWest \in BOOLEAN
    /\ eventSlots = <<>>
    /\ dragging = Null
    /\ ghostEvent = Null
    /\ lastY = NoY
    /\ cancelAsked = FALSE
    /\ lastCommit = Null
    /\ updateOutcome = "none"
    /\ announcement = Null
    /\ dialog = Null
    /\ lastSave = Null
    /\ issued = <<>>

NextGeometry ==
    \/ Mount
    \/ ToggleView
    \/ \E event \in Rendered, y \in GeometryYs :
          HandleMouseDown(event, 0, RectTop + y)
    \/ \E y \in GeometryYs : HandleMouseMove(RectTop + y)

SpecGeometry == InitGeometry /\ [][NextGeometry]_vars

----------------------------------------------------------------------------
(* Claims about the Interval Stacker *)

IntervalOf(e) == <<e.start, e.end>>

StackIntervals(stacks) ==
    [k \in 1..Len(stacks) |-> [j \in 1..Len(stacks[k]) |-> IntervalOf(stacks[k][j])]]

SameEvents(s, t) ==
    /\ Len(s) = Len(t)
    /\ {s[i] : i \in 1..Len(s)} = {t[i] : i \in 1..Len(t)}

Fixture == {<<540, 600>>, <<570, 585>>, <<630, 660>>}

IsFixture(evs) ==
    /\ Len(evs) = 3
    /\ {IntervalOf(evs[i]) : i \in 1..3} = Fixture

\* C1: in the stacks, an event follows another in the same stack iff it starts
\* strictly before the end of the event placed just before it; an event that
\* does not opens a new stack; the fixture 09:00-10:00, 09:30-09:45,
\* 10:30-11:00 gives exactly [09:00-10:00, 09:30-09:45] and [10:30-11:00].
C1_ChainRule ==
    /\ SameEvents(Flatten(eventSlots), events)
    /\ \A k \in 1..Len(eventSlots) :
        /\ Len(eventSlots[k]) > 0
        /\ \A j \in 2..Len(eventSlots[k]) :
              eventSlots[k][j].start < eventSlots[k][j - 1].end
        /\ k > 1 =>
              eventSlots[k][1].start >=
                  eventSlots[k - 1][Len(eventSlots[k - 1])].end
    /\ IsFixture(events) =>
          StackIntervals(eventSlots) =
              << <<(<<540, 600>>), (<<570, 585>>)>>, <<(<<630, 660>>)>> >>

C1_Witness ==
    /\ IsFixture(events)
    /\ IntervalOf(events[1]) = <<630, 660>>
    /\ Len(eventSlots) = 2
    /\ Len(eventSlots[1]) = 2

\* C2: the stacks read left to right, each top to bottom, list the input
\* events by start ascending and, among equal starts, by duration descending.
C2_SortedOrder ==
    LET flat == Flatten(eventSlots) IN
    /\ SameEvents(flat, events)
    /\ \A i, j \in 1..Len(flat) :
          i < j =>
            \/ flat[i].start < flat[j].start
            \/ /\ flat[i].start = flat[j].start
               /\ Duration(flat[i]) >= Duration(flat[j])

C2_Witness ==
    /\ Len(events) = 3
    /\ events[1].start > events[3].start
    /\ events[2].start = events[3].start
    /\ Duration(events[2]) < Duration(events[3])
    /\ Flatten(eventSlots) = <<events[3], events[2], events[1]>>

Overlap(a, b) == a.start < b.end /\ b.start < a.end

\* C3: no two distinct events of one stack have overlapping intervals
\* [start, end).
C3_NoOverlapInStack ==
    \A k \in 1..Len(eventSlots) :
        \A i, j \in 1..Len(eventSlots[k]) :
            i # j => ~Overlap(eventSlots[k][i], eventSlots[k][j])

----------------------------------------------------------------------------
(* Claims about the Drag/Resize Interpreter *)

InSession == dragging # Null /\ ghostEvent # Null

HasMoved == InSession /\ lastY # NoY

\* the instant the latest pointer-move mapped the pointer to
PointerInstant == NewDate(selectedDate, tzWest, lastY - RectTop)

\* C4: during a resize-start or resize-end drag the ghost keeps start < end
\* strictly, whatever the pointer positions.
C4_ResizeKeepsOrder ==
    (InSession /\ dragging.type \in {"resize-top", "resize-bottom"})
        => ghostEvent.start < ghostEvent.end

\* a resize-start whose latest candidate was at or past the end and was ignored
C4_Witness ==
    /\ HasMoved
    /\ dragging.type = "resize-top"
    /\ PointerInstant >= ghostEvent.end
    /\ ghostEvent.start = dragging.originalStart

\* C5: after every pointer-move of a move drag the ghost's duration is the
\* original duration exactly, also when the pointer is clamped.
C5_MoveKeepsDuration ==
    (HasMoved /\ dragging.type = "move")
        => ghostEvent.end - ghostEvent.start
               = dragging.originalEnd - dragging.originalStart

\* a move drag with the pointer below the grid
C5_Witness ==
    /\ HasMoved
    /\ dragging.type = "move"
    /\ (lastY - RectTop) * SlotMinutes > WindowMinutes * PixelsPerSlot
    /\ ghostEvent.start # dragging.originalStart

\* the whole minutes a pixel difference may stand for (rounded either way)
DeltaMinutes(dy) ==
    {(dy * SlotMinutes) \div PixelsPerSlot,
     -((-dy * SlotMinutes) \div PixelsPerSlot)}

\* C6: in a move drag the ghost is the original interval shifted by the time
\* that the pixel difference between the pointer and the pointer origin of
\* pointer-down stands for; no displacement leaves the original interval.
C6_MoveShiftsByPointerDelta ==
    (HasMoved /\ dragging.type = "move") =>
        /\ \E d \in DeltaMinutes(lastY - dragging.initialY) :
              /\ ghostEvent.start = dragging.originalStart + d
              /\ ghostEvent.end = dragging.originalEnd + d
        /\ lastY = dragging.initialY =>
              /\ ghostEvent.start = dragging.originalStart
              /\ ghostEvent.end = dragging.originalEnd

WindowStart == selectedDate * MinutesPerDay + StartHour * 60
WindowEnd   == selectedDate * MinutesPerDay + EndHour * 60

\* C7: after a pointer-move of any drag session the ghost lies inside the
\* visible window of the displayed day.
C7_GhostInsideWindow ==
    HasMoved => (WindowStart <= ghostEvent.start /\ ghostEvent.end <= WindowEnd)

\* a step taken by a pointer-move: the session stays, the pointer is recorded
IsPointerMoveStep ==
    /\ dragging # Null
    /\ dragging' = dragging
    /\ lastY' # NoY
    /\ <<ghostEvent, lastY>>' # <<ghostEvent, lastY>>

\* C8: a pointer-move calls no repository operation and no onUpdate callback
\* and leaves the view's list and the persisted list alone; only the ghost
\* changes.
C8_MoveTouchesOnlyGhost ==
    [][IsPointerMoveStep =>
          UNCHANGED <<stored, events, eventSlots, repoCalls, lastCommit,
                      updateOutcome, announcement, view, selectedDate>>]_vars

\* a session whose ghost a pointer-move has changed
C8_Witness ==
    /\ HasMoved
    /\ IntervalOf(ghostEvent) # <<dragging.originalStart, dragging.originalEnd>>
    /\ lastCommit = Null
    /\ \E i \in 1..Len(events) :
          /\ events[i].id = ghostEvent.id
          /\ IntervalOf(events[i]) = <<dragging.originalStart, dragging.originalEnd>>

WithId(list, id) == {list[i] : i \in {j \in 1..Len(list) : list[j].id = id}}

\* C9: a pointer-up hands the repository's update the subject's id and the
\* final ghost's interval, and when the update succeeds the persisted event
\* and the view's event carry that interval.
C9_CommitWritesThrough ==
    lastCommit # Null =>
        /\ \E i \in 1..Len(repoCalls) :
              /\ repoCalls[i].op = "updateEvent"
              /\ repoCalls[i].event = lastCommit
        /\ updateOutcome = "ok" =>
              /\ WithId(stored.list, lastCommit.id) = {lastCommit}
              /\ WithId(events, lastCommit.id) = {lastCommit}

\* a step taken by a pointer-up that commits
IsPointerUpStep == InSession /\ lastCommit' # Null

C11_AnnounceOnlyOnSuccess ==
    [][(IsPointerUpStep /\ updateOutcome' # "ok")
          => announcement' = announcement]_vars

\* C12: a drag session is abandoned by Escape or by loss of focus: once one
\* of them has happened during a session the drag state is Idle, the ghost is
\* discarded and nothing was handed to the repository.
C12_CancelAbandonsSession ==
    cancelAsked =>
        /\ dragging = Null
        /\ ghostEvent = Null
        /\ lastCommit = Null

\* a step taken by a pointer-down on a card or a handle: a session record is
\* written and the pointer history starts over
IsPointerDownStep ==
    /\ dragging' # Null
    /\ lastY' = NoY
    /\ lastCommit' = Null
    /\ <<dragging, ghostEvent, lastY, cancelAsked, lastCommit>>'
          # <<dragging, ghostEvent, lastY, cancelAsked, lastCommit>>

\* C13: at most one drag session is active at a time: a pointer-down on an
\* event body or a resize handle while a session is active leaves the session
\* (subject, mode, original interval, pointer origin) and its ghost alone.
C13_SingleSession ==
    [][(dragging # Null /\ IsPointerDownStep)
          => (dragging' = dragging /\ ghostEvent' = ghostEvent)]_vars

----------------------------------------------------------------------------
(* Claims about the Event Repository *)

Called(op) == lastCall # Null /\ lastCall.op = op

Failed == ~lastCall.result.ok /\ ~lastCall.result.raised

PersistedIds(st) == {st.list[i].id : i \in 1..Len(st.list)}

\* C14: for every storage state, create and update called with end <= start
\* fail with the validation error and leave the persisted list unchanged.
C14_InvalidIntervalRejected ==
    ((Called("createEvent") \/ Called("updateEvent"))
        /\ lastCall.arg # Null
        /\ NumGe(lastCall.arg.start, lastCall.arg.end))
    => /\ Failed
       /\ lastCall.result.error = "End time must be after start time"
       /\ stored = lastCall.before

\* C15: after any sequence of create, update and delete calls on a store
\* whose events all had start < end, every persisted event has start < end
\* strictly and no two persisted events share an id.
C15_PersistedEventsValid ==
    /\ \A i \in 1..Len(stored.list) :
          NumLt(stored.list[i].start, stored.list[i].end)
    /\ \A i, j \in 1..Len(stored.list) :
          i # j => stored.list[i].id # stored.list[j].id

\* the k-th smallest member of a set of indices
Nth(idx, k) == CHOOSE i \in idx : Cardinality({j \in idx : j < i}) = k - 1

\* C17: a range query returns exactly the persisted events with
\* start < rangeEnd and end > rangeStart, in persisted order, and leaves the
\* persisted list alone; an event that only touches the range at an endpoint
\* is not returned.
C17_QueryRange ==
    (Called("getEventsInRange") /\ lastCall.before.fault \in {"none", "full"})
    => LET list       == lastCall.before.list
           rangeStart == lastCall.arg[1]
           rangeEnd   == lastCall.arg[2]
           data       == lastCall.result.data
           idx        == {i \in 1..Len(list) :
                             /\ NumLt(list[i].start, rangeEnd)
                             /\ NumGt(list[i].end, rangeStart)}
       IN /\ lastCall.result.ok
          /\ stored = lastCall.before
          /\ Len(data) = Cardinality(idx)
          /\ \A k \in 1..Len(data) : data[k] = list[Nth(idx, k)]
          /\ \A i \in 1..Len(list) :
                (list[i].end = rangeStart \/ list[i].start = rangeEnd)
                    => \A k \in 1..Len(data) : data[k] # list[i]

\* a query over two persisted events that returns the second only, the first
\* ending exactly where the range starts
C17_Witness ==
    /\ Called("getEventsInRange")
    /\ Len(lastCall.before.list) = 2
    /\ lastCall.before.list[1].end = lastCall.arg[1]
    /\ lastCall.result.ok
    /\ lastCall.result.data = <<lastCall.before.list[2]>>

\* C18: after creating a valid event in an empty store, a range query
\* covering its interval returns exactly that event, with the id the
\* repository assigned; after deleting that id, the same query returns the
\* empty sequence.
C18_CreateQueryDelete ==
    /\ Len(repoCalls) >= 1 =>
          /\ repoCalls[1].result.ok
          /\ repoCalls[1].result.data.id \in IdSet
          /\ repoCalls[1].result.data.start = repoCalls[1].arg.start
          /\ repoCalls[1].result.data.end = repoCalls[1].arg.end
    /\ Len(repoCalls) >= 2 =>
          /\ repoCalls[2].result.ok
          /\ repoCalls[2].result.data = <<repoCalls[1].result.data>>
    /\ Len(repoCalls) >= 3 => repoCalls[3].result.ok
    /\ Len(repoCalls) >= 4 =>
          /\ repoCalls[4].result.ok
          /\ repoCalls[4].result.data = <<>>

\* the whole round trip, queried with the created interval itself
C18_Witness ==
    /\ Len(repoCalls) = 4
    /\ repoCalls[2].arg = <<repoCalls[1].arg.start, repoCalls[1].arg.end>>
    /\ repoCalls[4].arg = repoCalls[2].arg
    /\ repoCalls[2].result.data # <<>>
    /\ repoCalls[1].before = NoItem
    /\ stored = Item(<<>>)

\* C19: update called with a valid interval and an id that is not persisted,
\* also when nothing has ever been persisted, returns the 'event not found'
\* error and leaves the persisted list unchanged; the event is not inserted.
C19_UpdateUnknownId ==
    (Called("updateEvent")
        /\ lastCall.arg # Null
        /\ NumLt(lastCall.arg.start, lastCall.arg.end)
        /\ lastCall.before.fault \in {"none", "full"}
        /\ lastCall.arg.id \notin PersistedIds(lastCall.before))
    => /\ Failed
       /\ lastCall.result.error = "Event not found"
       /\ stored = lastCall.before

\* C20: each of the four operations returns a tagged result, ok with data or
\* failure with an error string, for every input and every storage state,
\* unreadable or corrupt storage included, and never raises; when it returns
\* failure the persisted list is unchanged.
C20_TaggedResults ==
    lastCall # Null =>
        /\ ~lastCall.result.raised
        /\ lastCall.result.ok \in BOOLEAN
        /\ lastCall.result.ok => lastCall.result.error = ""
        /\ ~lastCall.result.ok =>
              /\ lastCall.result.error # ""
              /\ stored = lastCall.before

\* a create on storage whose item does not parse
C20_Witness ==
    /\ Called("createEvent")
    /\ lastCall.before = Corrupt
    /\ lastCall.result.error = "Failed to create event"
    /\ stored = Corrupt

----------------------------------------------------------------------------
(* Claims about event identity *)

\* C16: the user interface never assigns ids: an edit saved from the event
\* dialog is handed on with the id of the event being edited, and a create
\* is handed on without an id.
C16_DialogKeepsIdentity ==
    lastSave # Null =>
        IF lastSave.editing # Null
        THEN lastSave.event.id = lastSave.editing.id
        ELSE "id" \notin DOMAIN lastSave.event

----------------------------------------------------------------------------
(* Claims about the AppShell *)

\* C21: once every issued repository call has completed, after any sequence
\* of date selections, month navigations and mutations, the view's event list
\* is what a range query over the selected day returns.
C21_ViewMatchesSelectedDay ==
    mounted =>
        LET r == GetEventsInRange(stored, GetDayStart(selectedDate),
                                  GetDayEnd(selectedDate))
        IN r.ok => events = r.data

CountOf(log, op) == Cardinality({i \in 1..Len(log) : log[i].op = op})

\* C22: two edits of the same event issued one after the other are
\* serialized: both reach the repository, in order, and the persisted event
\* and the view's event end with the values of the later edit.
C22_EditsSerialized ==
    LET n == Len(issued) IN
    (n >= 2 /\ issued[n - 1].op = "updateEvent" /\ issued[n].op = "updateEvent"
            /\ issued[n - 1].arg.id = issued[n].arg.id)
    => /\ WithId(stored.list, issued[n].arg.id) = {issued[n].arg}
       /\ WithId(events, issued[n].arg.id) = {issued[n].arg}
       /\ \E i, j \in 1..Len(repoCalls) :
             /\ i < j
             /\ repoCalls[i].op = "updateEvent" /\ repoCalls[j].op = "updateEvent"

\* C28: each AppShell CRUD handler, once invoked from the view, completes
\* and invokes the corresponding repository operation exactly once.
C28_HandlersReachRepository ==
    /\ \A i \in 1..Len(issued) : issued[i].settled # "rejected"
    /\ \A op \in {"createEvent", "updateEvent", "deleteEvent"} :
          CountOf(repoCalls, op) = CountOf(issued, op)

----------------------------------------------------------------------------
(* Claims about the Coordinate Mapper *)

\* the pointer's offset from the top of the grid at the latest pointer-move
PointerOffset == lastY - RectTop

\* C23: for every pointer y, negative, inside or beyond the grid, the minutes
\* computed from it lie in [0, (endHour - startHour) * 60]: the time derived
\* from the pointer is never before startHour:00 nor after endHour:00.
C23_PointerTimeInsideWindow ==
    (HasMoved /\ dragging.type = "move") =>
        LET minutes == ClockMinutes(ghostEvent.start) - StartHour * 60
        IN 0 <= minutes /\ minutes <= WindowMinutes

\* a pointer above the grid, mapped to startHour:00
C23_Witness ==
    /\ HasMoved
    /\ dragging.type = "move"
    /\ PointerOffset < 0
    /\ ClockMinutes(ghostEvent.start) = StartHour * 60

AllCards == Rendered \cup (IF ghostEvent = Null THEN {} ELSE {ghostEvent})

\* C24: every rendered card, of an event or of the ghost, also one that
\* starts before startHour or ends after endHour, has top >= 0 and
\* top + height <= the pixel height of the window.
C24_CardsInsideWindow ==
    \A e \in AllCards :
        /\ CardTop15(e) >= 0
        /\ CardTop15(e) + CardHeight15(e) <= WindowPixels * SlotMinutes

\* C25: for every pixel offset y inside the window, the top at which the
\* instant computed from y is rendered differs from y by less than one slot's
\* pixel height.
C25_OffsetRoundTrip ==
    (HasMoved /\ dragging.type = "move"
        /\ 0 <= PointerOffset /\ PointerOffset <= WindowPixels) =>
        LET d == CardTop15(ghostEvent) - PointerOffset * SlotMinutes
        IN -(PixelsPerSlot * SlotMinutes) < d /\ d < PixelsPerSlot * SlotMinutes

\* a pointer inside the window whose instant is rendered above it
C25_Witness ==
    /\ HasMoved
    /\ dragging.type = "move"
    /\ 0 < PointerOffset /\ PointerOffset < WindowPixels
    /\ CardTop15(ghostEvent) < PointerOffset * SlotMinutes

----------------------------------------------------------------------------
(* Claims about the resize frame and the ghost of a session *)

\* C26: a pointer-move of a resize-start drag leaves the ghost's end at the
\* session's original end, one of a resize-end drag leaves the ghost's start
\* at the original start, and a rejected candidate leaves the whole ghost as
\* it was.
C26_ResizeKeepsOppositeEdge ==
    [][IsPointerMoveStep =>
          /\ dragging.type = "resize-top" =>
                /\ ghostEvent'.end = dragging.originalEnd
                /\ PointerInstant' >= ghostEvent.end => ghostEvent' = ghostEvent
          /\ dragging.type = "resize-bottom" =>
                /\ ghostEvent'.start = dragging.originalStart
                /\ PointerInstant' <= ghostEvent.start => ghostEvent' = ghostEvent]_vars

\* a resize-end whose end was moved and whose latest candidate, at or before
\* the start, was rejected
C26_Witness ==
    /\ HasMoved
    /\ dragging.type = "resize-bottom"
    /\ PointerInstant <= ghostEvent.start
    /\ ghostEvent.end # dragging.originalEnd
    /\ ghostEvent.start = dragging.originalStart

\* C29: a ghost exists exactly while a session is active, it carries the id
\* of the session's subject, and right after the pointer-down, before any
\* pointer-move, its interval is the interval the subject has in the list.
C29_GhostFollowsSession ==
    /\ (dragging = Null) <=> (ghostEvent = Null)
    /\ InSession =>
          /\ ghostEvent.id = dragging.id
          /\ lastY = NoY =>
                /\ IntervalOf(ghostEvent) = <<dragging.originalStart, dragging.originalEnd>>
                /\ \E e \in Rendered :
                      e.id = ghostEvent.id /\ IntervalOf(e) = IntervalOf(ghostEvent)

\* a session started by a pointer-down after an earlier commit was handed over
C29_Witness ==
    /\ InSession
    /\ lastY = NoY
    /\ announcement # Null
    /\ \E e \in Rendered : e = ghostEvent

----------------------------------------------------------------------------
(* Claims about delete *)

\* the list without its i-th element
WithoutIndex(list, i) ==
    [j \in 1..(Len(list) - 1) |-> IF j < i THEN list[j] ELSE list[j + 1]]

\* C27: on working storage delete(id) returns success whether or not id is
\* persisted; when it is, exactly the event with that id is removed and the
\* other events keep their values and their order; when it is not, the
\* persisted events are unchanged; a second delete of the same id changes
\* nothing more.
C27_DeleteRemovesExactlyId ==
    (Called("deleteEvent") /\ lastCall.before.fault = "none") =>
        LET before == lastCall.before
            id     == lastCall.arg
            again  == RepoDeleteEvent(stored, id)
        IN  /\ lastCall.result.ok
            /\ id \in PersistedIds(before) =>
                  \E i \in 1..Len(before.list) :
                      /\ before.list[i].id = id
                      /\ stored = Item(WithoutIndex(before.list, i))
            /\ id \notin PersistedIds(before) => stored = before
            /\ again.ok
            /\ again.stored = stored

\* the first of two persisted events deleted, the second one kept
C27_Witness ==
    /\ Called("deleteEvent")
    /\ lastCall.before.fault = "none"
    /\ Len(lastCall.before.list) = 2
    /\ lastCall.before.list[1].id = lastCall.arg
    /\ stored = Item(<<lastCall.before.list[2]>>)

----------------------------------------------------------------------------
(* Claims about the stacks as a partition *)

\* the places <<stack, position>> of the stacks
Places == UNION {{<<k, j>> : j \in 1..Len(eventSlots[k])} : k \in 1..Len(eventSlots)}

\* C30: every input event is at exactly one place of exactly one stack, the
\* stacks hold nothing else, no stack is empty, and an empty input gives an
\* empty sequence of stacks.
C30_StacksPartitionInput ==
    /\ \A i \in 1..Len(events) :
          Cardinality({p \in Places : eventSlots[p[1]][p[2]] = events[i]}) = 1
    /\ Cardinality(Places) = Len(events)
    /\ \A k \in 1..Len(eventSlots) : Len(eventSlots[k]) > 0
    /\ events = <<>> => eventSlots = <<>>
    /\ StackEvents(<<>>) = <<>>

\* three events, one stack of one and then one stack of two
C30_Witness ==
    /\ Len(events) = 3
    /\ Len(eventSlots) = 2
    /\ Len(eventSlots[1]) = 1
    /\ Len(eventSlots[2]) = 2

====
